---- MODULE Spec2Model ----
(***************************************************************************)
(* SimVestor analytics (src/modules/analysis.py): calculate_returns,       *)
(* calculate_technical_indicators, generate_investment_insights and        *)
(* simple_prediction_model, as functions of a daily price series.          *)
(*                                                                         *)
(* Floating point numbers are modelled exactly: a number is a fraction     *)
(* [n, d] in lowest terms with d > 0, or one of the IEEE specials          *)
(* +inf = [1, 0], -inf = [-1, 0], NaN = [0, 0].  The arithmetic below      *)
(* follows IEEE 754 on the specials (x/0 = +-inf, 0/0 = NaN, inf*0 = NaN,  *)
(* inf-inf = NaN, every comparison with NaN is false), which is what numpy *)
(* and pandas do (they warn, they do not raise).  Rounding is not          *)
(* modelled.                                                               *)
(***************************************************************************)
EXTENDS Integers, Sequences, FiniteSets, TLC

(***************************************************************************)
(* Numbers                                                                 *)
(***************************************************************************)
Abs(x) == IF x < 0 THEN -x ELSE x

Sign(x) == IF x < 0 THEN -1 ELSE IF x > 0 THEN 1 ELSE 0

RECURSIVE GCD(_, _)
GCD(a, b) == IF b = 0 THEN a ELSE GCD(b, a % b)

\* the float n/d, in lowest terms; d = 0 gives inf, -inf or NaN by the sign of n
Norm(n, d) ==
    IF d = 0 THEN [n |-> Sign(n), d |-> 0]
    ELSE LET g == GCD(Abs(n), Abs(d))
             s == Sign(d)
         IN  [n |-> (s * n) \div g, d |-> (s * d) \div g]

Num(i) == [n |-> i, d |-> 1]
NaN == [n |-> 0, d |-> 0]
PosInf == [n |-> 1, d |-> 0]
NegInf == [n |-> -1, d |-> 0]

IsNaN(a) == a.d = 0 /\ a.n = 0
IsInf(a) == a.d = 0 /\ a.n # 0
IsFinite(a) == a.d > 0

Neg(a) == [n |-> -a.n, d |-> a.d]

Add(a, b) ==
    IF a.d = 0 /\ b.d = 0
    THEN (IF a = b THEN a ELSE NaN)
    ELSE Norm(a.n * b.d + b.n * a.d, a.d * b.d)

Sub(a, b) == Add(a, Neg(b))

Mul(a, b) == Norm(a.n * b.n, a.d * b.d)

\* a zero divisor is +0.0: x / 0 has the sign of x
Div(a, b) ==
    IF b.n < 0 THEN Norm(-(a.n * b.d), a.d * (-b.n))
    ELSE Norm(a.n * b.d, a.d * b.n)

\* a < b on floats: false when either is NaN
Lt(a, b) ==
    /\ ~IsNaN(a)
    /\ ~IsNaN(b)
    /\ IF a.d = 0 /\ b.d = 0 THEN a.n < b.n ELSE a.n * b.d < b.n * a.d

Gt(a, b) == Lt(b, a)

\* Python truth value of a float: only 0.0 is false (NaN and inf are true)
Truthy(a) == ~(a.d > 0 /\ a.n = 0)

Hundred == Num(100)

(***************************************************************************)
(* pandas Series helpers used by analysis.py.  A Series is a sequence of   *)
(* numbers; the data frame is a sequence of rows [Date, Close, Volume]     *)
(* in date order, and its index is the Date of each row.                   *)
(***************************************************************************)
Columns == <<"Close", "Volume">>

HasColumn(cols, c) == \E i \in 1..Len(cols) : cols[i] = c

\* every column of the frame is numeric, so the fallback is the first column
get_price_column(cols) ==
    IF HasColumn(cols, "Adj Close") THEN "Adj Close"
    ELSE IF HasColumn(cols, "Close") THEN "Close"
    ELSE IF Len(cols) > 0 THEN cols[1]
    ELSE "None"

\* a function on 1..n as a sequence, every entry evaluated once
AsSeq(f) == SubSeq(f, 1, Len(f))

\* data[c] as a Series
Column(df, c) ==
    AsSeq([i \in 1..Len(df) |-> Num(IF c = "Volume" THEN df[i].Volume ELSE df[i].Close)])

\* Series.pct_change(): s / s.shift(1) - 1, NaN in the first row
pct_change(s) ==
    AsSeq([i \in 1..Len(s) |-> IF i = 1 THEN NaN ELSE Sub(Div(s[i], s[i - 1]), Num(1))])

NotNaN(x) == ~IsNaN(x)

\* Series.dropna()
dropna(s) == SelectSeq(s, NotNaN)

\* The scans below walk a series from its first row to its last, as pandas
\* does.  The range is halved at each step, and the value that the rows of
\* the first half leave behind is computed before the second half is
\* visited (it is the one element of the set the second half is drawn from),
\* so that the evaluation nests to a depth of the logarithm of the length.

\* acc * s[lo] * ... * s[hi], multiplied in this order
RECURSIVE ProdOver(_, _, _, _)
ProdOver(s, lo, hi, acc) ==
    IF lo > hi THEN acc
    ELSE IF lo = hi THEN Mul(acc, s[lo])
    ELSE CHOOSE r \in {ProdOver(s, (lo + hi) \div 2 + 1, hi, a) :
                          a \in {ProdOver(s, lo, (lo + hi) \div 2, acc)}} : TRUE

RECURSIVE CumProdFrom(_, _, _, _)
CumProdFrom(s, lo, hi, acc) ==
    IF lo > hi THEN <<>>
    ELSE IF lo = hi THEN <<Mul(acc, s[lo])>>
    ELSE CHOOSE r \in {CumProdFrom(s, lo, (lo + hi) \div 2, acc)
                          \o CumProdFrom(s, (lo + hi) \div 2 + 1, hi, a) :
                          a \in {ProdOver(s, lo, (lo + hi) \div 2, acc)}} : TRUE

\* Series.cumprod() of a series without NaN entries
cumprod(s) == CumProdFrom(s, 1, Len(s), Num(1))

\* the running maximum after rows lo..hi, NaN entries skipped
RECURSIVE BestOver(_, _, _, _)
BestOver(s, lo, hi, best) ==
    IF lo > hi THEN best
    ELSE IF lo = hi THEN (IF ~IsNaN(s[lo]) /\ Lt(best, s[lo]) THEN s[lo] ELSE best)
    ELSE CHOOSE r \in {BestOver(s, (lo + hi) \div 2 + 1, hi, b) :
                          b \in {BestOver(s, lo, (lo + hi) \div 2, best)}} : TRUE

RECURSIVE CumMaxFrom(_, _, _, _)
CumMaxFrom(s, lo, hi, best) ==
    IF lo > hi THEN <<>>
    ELSE IF lo = hi THEN <<IF IsNaN(s[lo]) THEN NaN ELSE BestOver(s, lo, lo, best)>>
    ELSE CHOOSE r \in {CumMaxFrom(s, lo, (lo + hi) \div 2, best)
                          \o CumMaxFrom(s, (lo + hi) \div 2 + 1, hi, b) :
                          b \in {BestOver(s, lo, (lo + hi) \div 2, best)}} : TRUE

\* Series.cummax(): running maximum that skips NaN entries (they stay NaN)
cummax(s) == CumMaxFrom(s, 1, Len(s), NegInf)

RECURSIVE MinFrom(_, _, _, _)
MinFrom(s, lo, hi, best) ==
    IF lo > hi THEN best
    ELSE IF lo = hi
    THEN (IF IsNaN(s[lo]) THEN best
          ELSE IF IsNaN(best) \/ Lt(s[lo], best) THEN s[lo] ELSE best)
    ELSE CHOOSE r \in {MinFrom(s, (lo + hi) \div 2 + 1, hi, b) :
                          b \in {MinFrom(s, lo, (lo + hi) \div 2, best)}} : TRUE

\* Series.min(): the minimum of the non-NaN entries, NaN when there is none
SeriesMin(s) == MinFrom(s, 1, Len(s), NaN)

(***************************************************************************)
(* Series.std() (ddof = 1) times sqrt(252) * 100 is irrational in general; *)
(* it is kept by its class: "nan" (fewer than 2 observations, or a         *)
(* non-finite observation), "zero" (all observations equal) or "positive". *)
(***************************************************************************)
StdClass(s) ==
    IF Len(s) < 2 THEN "nan"
    ELSE IF \E i \in 1..Len(s) : ~IsFinite(s[i]) THEN "nan"
    ELSE IF \A i \in 1..Len(s) : s[i] = s[1] THEN "zero"
    ELSE "positive"

(***************************************************************************)
(* calculate_returns(data, investment_amount)                              *)
(***************************************************************************)
\* (1 + daily_returns).cumprod()
Cumulative(daily_returns) ==
    cumprod(AsSeq([i \in 1..Len(daily_returns) |-> Add(Num(1), daily_returns[i])]))

\* (cumulative - rolling_max) / rolling_max
Drawdown(cumulative, rolling_max) ==
    AsSeq([i \in 1..Len(cumulative) |->
              Div(Sub(cumulative[i], rolling_max[i]), rolling_max[i])])

DrawdownOf(cumulative) == Drawdown(cumulative, cummax(cumulative))

\* drawdown.min() * 100
MaxDrawdown(daily_returns) ==
    Mul(SeriesMin(DrawdownOf(Cumulative(daily_returns))), Hundred)

NotCalled == [status |-> "not_called"]
None == [status |-> "None"]

\* variant: percent_return as final_value / investment_amount * 100
calculate_returns_PercentOfValue(df, amount) ==
    IF Len(df) = 0 THEN None
    ELSE IF get_price_column(Columns) = "None" THEN None
    ELSE
    LET close == Column(df, get_price_column(Columns))
        initial_price == close[1]
        final_price == close[Len(close)]
        shares == Div(Num(amount), initial_price)
        final_value == Mul(shares, final_price)
        daily_returns == dropna(pct_change(close))
    IN  [status |-> "ok",
         initial_investment |-> amount,
         final_value |-> final_value,
         total_return |-> Sub(final_value, Num(amount)),
         percent_return |-> Mul(Div(final_value, Num(amount)), Hundred),
         shares |-> shares,
         initial_price |-> initial_price,
         final_price |-> final_price,
         volatility |-> StdClass(daily_returns),
         max_drawdown |-> MaxDrawdown(daily_returns),
         days_invested |-> Len(df)]

calculate_returns(df, amount) ==
    IF Len(df) = 0 THEN None
    ELSE IF get_price_column(Columns) = "None" THEN None
    ELSE
    LET close == Column(df, get_price_column(Columns))
        initial_price == close[1]
        final_price == close[Len(close)]
        shares == Div(Num(amount), initial_price)
        final_value == Mul(shares, final_price)
        total_return == Sub(final_value, Num(amount))
        percent_return == Mul(Sub(Div(final_value, Num(amount)), Num(1)), Hundred)
        daily_returns == dropna(pct_change(close))
        volatility == StdClass(daily_returns)
        max_drawdown == MaxDrawdown(daily_returns)
    IN  [status |-> "ok",
         initial_investment |-> amount,
         final_value |-> final_value,
         total_return |-> total_return,
         percent_return |-> percent_return,
         shares |-> shares,
         initial_price |-> initial_price,
         final_price |-> final_price,
         volatility |-> volatility,
         max_drawdown |-> max_drawdown,
         days_invested |-> Len(df)]

(***************************************************************************)
(* Rolling windows and calculate_rsi(prices, window=14)                    *)
(***************************************************************************)
RSIWindow == 14

RECURSIVE SumRange(_, _, _)
SumRange(s, lo, hi) ==
    IF lo > hi THEN Num(0)
    ELSE IF lo = hi THEN Add(s[lo], Num(0))
    ELSE CHOOSE r \in {Add(left, SumRange(s, (lo + hi) \div 2 + 1, hi)) :
                          left \in {SumRange(s, lo, (lo + hi) \div 2)}} : TRUE

\* the rolling window of size k slides over s: row i enters, row i - k leaves
\* the sum of the window after rows lo..hi have entered it
RECURSIVE WindowOver(_, _, _, _, _)
WindowOver(s, k, lo, hi, sum) ==
    IF lo > hi THEN sum
    ELSE IF lo = hi
    THEN (IF lo > k THEN Sub(Add(sum, s[lo]), s[lo - k]) ELSE Add(sum, s[lo]))
    ELSE CHOOSE r \in {WindowOver(s, k, (lo + hi) \div 2 + 1, hi, w) :
                          w \in {WindowOver(s, k, lo, (lo + hi) \div 2, sum)}} : TRUE

RECURSIVE RollingMeanFrom(_, _, _, _, _)
RollingMeanFrom(s, k, lo, hi, sum) ==
    IF lo > hi THEN <<>>
    ELSE IF lo = hi
    THEN <<IF lo < k THEN NaN ELSE Div(WindowOver(s, k, lo, lo, sum), Num(k))>>
    ELSE CHOOSE r \in {RollingMeanFrom(s, k, lo, (lo + hi) \div 2, sum)
                          \o RollingMeanFrom(s, k, (lo + hi) \div 2 + 1, hi, w) :
                          w \in {WindowOver(s, k, lo, (lo + hi) \div 2, sum)}} : TRUE

\* s.rolling(window=k).mean() of a series without NaN entries: NaN in the
\* first k - 1 rows
rolling_mean(s, k) == RollingMeanFrom(s, k, 1, Len(s), Num(0))

\* prices.diff(): NaN in the first row
diff(s) == AsSeq([i \in 1..Len(s) |-> IF i = 1 THEN NaN ELSE Sub(s[i], s[i - 1])])

\* delta.where(delta > 0, 0): NaN > 0 is false, so the first row becomes 0
Gains(delta) ==
    AsSeq([i \in 1..Len(delta) |-> IF Gt(delta[i], Num(0)) THEN delta[i] ELSE Num(0)])

\* -delta.where(delta < 0, 0)
Losses(delta) ==
    AsSeq([i \in 1..Len(delta) |->
              IF Lt(delta[i], Num(0)) THEN Neg(delta[i]) ELSE Num(0)])

\* rs = gain / loss is not guarded: loss = 0 gives inf (gain > 0) or NaN (gain = 0)
RSIFrom(gain, loss) ==
    Sub(Hundred, Div(Hundred, Add(Num(1), Div(gain, loss))))

RSISeries(gain, loss) == AsSeq([i \in 1..Len(gain) |-> RSIFrom(gain[i], loss[i])])

\* calculate_rsi(prices) as a Series
calculate_rsi(prices) ==
    RSISeries(rolling_mean(Gains(diff(prices)), RSIWindow),
              rolling_mean(Losses(diff(prices)), RSIWindow))

\* series.iloc[-1]
Last(s) == s[Len(s)]

(***************************************************************************)
(* calculate_technical_indicators(data)                                    *)
(***************************************************************************)
ShortMA == 20
MidMA == 50
LongMA == 200
BBWindow == 20
VolumeWindow == 20

Empty == [status |-> "empty"]

\* ((current_price - MA) / MA) * 100 if MA else 0
PriceVsMA(current_price, ma) ==
    IF Truthy(ma) THEN Mul(Div(Sub(current_price, ma), ma), Hundred) ELSE Num(0)

Squares(s) == AsSeq([j \in 1..Len(s) |-> Mul(s[j], s[j])])

VarFrom(sm, sq, k) == Div(Sub(Mul(Num(k), sq), Mul(sm, sm)), Num(k * (k - 1)))

\* s.rolling(window=k).std().iloc[-1] as its square, the sample variance
\* (ddof = 1) of the last k rows: (k*sum(x^2) - sum(x)^2) / (k*(k-1))
LastRollingVar(s, k) ==
    IF Len(s) < k THEN NaN
    ELSE VarFrom(SumRange(s, Len(s) - k + 1, Len(s)),
                 SumRange(Squares(s), Len(s) - k + 1, Len(s)), k)

\* the value mean + times * sqrt(var), kept symbolically
Band(mean, times, var) == [mean |-> mean, times |-> times, var |-> var]

\* ((current - data[close].iloc[-(lookback+1)]) / that) * 100 if len(data) > lookback + 1
PriceChange(close, lookback) ==
    LET n == Len(close)
    IN  IF n > lookback + 1
        THEN Mul(Div(Sub(close[n], close[n - lookback]), close[n - lookback]), Hundred)
        ELSE Num(0)

\* indicators['avg_volume'], 0 without a Volume column
AvgVolume(volume) ==
    IF HasColumn(Columns, "Volume") THEN Last(rolling_mean(volume, VolumeWindow))
    ELSE Num(0)

\* the indicators dict, from the rolling values of the last row
Indicators(close, volume, MA_20, MA_50, MA_200, bb_mean, bb_var, avg_volume) ==
    [status |-> "ok",
     MA_20 |-> MA_20,
     MA_50 |-> MA_50,
     MA_200 |-> MA_200,
     current_price |-> Last(close),
     price_vs_ma20 |-> PriceVsMA(Last(close), MA_20),
     price_vs_ma50 |-> PriceVsMA(Last(close), MA_50),
     price_vs_ma200 |-> PriceVsMA(Last(close), MA_200),
     RSI |-> Last(calculate_rsi(close)),
     BB_upper |-> Band(bb_mean, 2, bb_var),
     BB_lower |-> Band(bb_mean, -2, bb_var),
     BB_width |-> Band(Sub(bb_mean, bb_mean), 4, bb_var),
     avg_volume |-> avg_volume,
     current_volume |-> IF HasColumn(Columns, "Volume") THEN Last(volume) ELSE Num(0),
     volume_ratio |-> IF HasColumn(Columns, "Volume") /\ Gt(avg_volume, Num(0))
                      THEN Div(Last(volume), avg_volume) ELSE Num(1),
     price_change_20d |-> PriceChange(close, 20),
     price_change_50d |-> PriceChange(close, 50)]

\* variant: a series shorter than the 20-record window counts as insufficient
\* data and gives the empty mapping
calculate_technical_indicators_EmptyWhenShort(df) ==
    IF Len(df) < ShortMA THEN Empty
    ELSE IF get_price_column(Columns) = "None" THEN Empty
    ELSE Indicators(Column(df, get_price_column(Columns)),
                    Column(df, "Volume"),
                    Last(rolling_mean(Column(df, get_price_column(Columns)), ShortMA)),
                    Last(rolling_mean(Column(df, get_price_column(Columns)), MidMA)),
                    Last(rolling_mean(Column(df, get_price_column(Columns)), LongMA)),
                    Last(rolling_mean(Column(df, get_price_column(Columns)), BBWindow)),
                    LastRollingVar(Column(df, get_price_column(Columns)), BBWindow),
                    AvgVolume(Column(df, "Volume")))

\* an exception inside the try block would return {}; none of the steps raises
calculate_technical_indicators(df) ==
    IF Len(df) = 0 THEN Empty
    ELSE IF get_price_column(Columns) = "None" THEN Empty
    ELSE Indicators(Column(df, get_price_column(Columns)),
                    Column(df, "Volume"),
                    Last(rolling_mean(Column(df, get_price_column(Columns)), ShortMA)),
                    Last(rolling_mean(Column(df, get_price_column(Columns)), MidMA)),
                    Last(rolling_mean(Column(df, get_price_column(Columns)), LongMA)),
                    Last(rolling_mean(Column(df, get_price_column(Columns)), BBWindow)),
                    LastRollingVar(Column(df, get_price_column(Columns)), BBWindow),
                    AvgVolume(Column(df, "Volume")))

(***************************************************************************)
(* simple_prediction_model(data, days_ahead)                               *)
(***************************************************************************)
MinRecords == 30
MinUsableRows == 10
MA7Window == 7
MA21Window == 21

Raised == [status |-> "raised"]

\* df.dropna(): the rows (by position in data) whose feature columns are all
\* defined (the columns of data itself hold no NaN)
DropNaRows(MA_7, MA_21, RSI, Price_Change) ==
    LET Usable(i) == /\ ~IsNaN(MA_7[i])
                     /\ ~IsNaN(MA_21[i])
                     /\ ~IsNaN(RSI[i])
                     /\ ~IsNaN(Price_Change[i])
    IN  SelectSeq([i \in 1..Len(MA_7) |-> i], Usable)

UsableRows(close) ==
    DropNaRows(rolling_mean(close, MA7Window), rolling_mean(close, MA21Window),
               calculate_rsi(close), pct_change(close))

\* variant: the split index rounded up
SplitIdx_RoundsUp(n) == (n * 8 + 9) \div 10

\* int(len(X) * 0.8)
SplitIdx(n) == (n * 8) \div 10

\* the rows X[-days_ahead:] selects, as positions in 1..n (numpy slicing:
\* -0 is 0, so days_ahead = 0 selects every row; a negative days_ahead
\* selects the rows from |days_ahead| on)
LastRows(n, days) ==
    IF days > 0 THEN (IF days >= n THEN 1 ELSE n - days + 1)..n
    ELSE (-days + 1)..n

\* X[:split_idx] and X[split_idx:], as positions in data
X_train(rows) == SubSeq(rows, 1, SplitIdx(Len(rows)))

X_test(rows) == SubSeq(rows, SplitIdx(Len(rows)) + 1, Len(rows))

\* scaler.fit_transform(X_train): the rows the scaler's minima and maxima are
\* taken from; scaler.transform only applies them
ScalerFit(rows) == X_train(rows)

ModelNames == <<"Linear Regression", "Random Forest">>

\* RandomForestRegressor(n_estimators=50, random_state=42)
RandomForestSeed == 42

\* variant: random_state=None, a stream from fresh entropy at every fit
RandomState_FreshEntropy(random_state) == {1, 2}

\* the random streams a forest seeded with random_state may draw from: one
\* stream per seed
RandomState(random_state) == {random_state}

\* variant: a later model replaces the best one unless its mse is higher
RECURSIVE BestModel_KeepsLastOnTie(_, _, _)
BestModel_KeepsLastOnTie(mse, i, best) ==
    IF i > Len(ModelNames) THEN best
    ELSE IF ~Lt(best.best_score, mse[ModelNames[i]])
         THEN BestModel_KeepsLastOnTie(mse, i + 1,
                        [best_score |-> mse[ModelNames[i]], model_name |-> ModelNames[i]])
         ELSE BestModel_KeepsLastOnTie(mse, i + 1, best)

\* the loop over models.items(): keep the model with the strictly lower test mse
RECURSIVE BestModel(_, _, _)
BestModel(mse, i, best) ==
    IF i > Len(ModelNames) THEN best
    ELSE IF Lt(mse[ModelNames[i]], best.best_score)
         THEN BestModel(mse, i + 1,
                        [best_score |-> mse[ModelNames[i]], model_name |-> ModelNames[i]])
         ELSE BestModel(mse, i + 1, best)

\* pd.date_range(start=last_date + 1 day, periods=days_ahead, freq='D')
FutureDates(last_date, days) == [j \in 1..days |-> last_date + j]

\* df = data.copy() with the feature columns, after df.dropna(): the rows kept
prepare_features(df) == UsableRows(Column(df, get_price_column(Columns)))

\* the early returns: None unless sklearn was imported, the frame has at least
\* 30 records and a price column is found
ReachesFeatures_OffByOne(ml, df) ==
    ml /\ ~(Len(df) <= MinRecords) /\ get_price_column(Columns) # "None"

ReachesFeatures(ml, df) ==
    ml /\ ~(Len(df) < MinRecords) /\ get_price_column(Columns) # "None"

\* rows is prepare_features(df); mse is the test mean squared error sklearn
\* reports for each fitted model
simple_prediction_model(ml, df, rows, days, mse) ==
    IF ~ReachesFeatures(ml, df) THEN None
    ELSE
    LET close == Column(df, get_price_column(Columns))
        n == Len(rows)
        split_idx == SplitIdx(n)
        y_test == [j \in 1..Len(X_test(rows)) |-> close[X_test(rows)[j]]]
        best == BestModel(mse, 1, [best_score |-> PosInf, model_name |-> ""])
        last_features == LastRows(n, days)
        last_date == df[rows[n]].Date
    IN  IF n < MinUsableRows THEN None
        ELSE IF best.model_name = "" THEN Raised
        ELSE IF last_features = {} THEN Raised
        ELSE IF days < 0 THEN Raised
        ELSE [status |-> "ok",
              predictions |-> [j \in 1..Cardinality(last_features) |->
                                  [model |-> best.model_name,
                                   row |-> rows[n - Cardinality(last_features) + j]]],
              dates |-> FutureDates(last_date, days),
              model_name |-> best.model_name,
              mse |-> best.best_score,
              accuracy |-> [mse |-> best.best_score,
                            mean_y_test |-> Div(SumRange(y_test, 1, Len(y_test)),
                                                Num(Len(y_test)))]]

\* what the fitting steps saw: the two partitions and the rows the scaler was
\* fitted on (nothing when the function returned before the split)
TrainTestSplit(ml, df, rows) ==
    IF ~ReachesFeatures(ml, df) \/ Len(rows) < MinUsableRows THEN NotCalled
    ELSE [status |-> "fitted",
          X_train |-> X_train(rows),
          X_test |-> X_test(rows),
          scaler_fit |-> ScalerFit(rows)]

\* The caller's frame is an object with columns. df = data.copy() is a new
\* object, and df['MA_7'] = ... adds the feature columns to the object df names.
FeatureColumns == <<"MA_7", "MA_21", "RSI", "Price_Change">>

CallerFrame == [object |-> "data", columns |-> Columns]

\* variant: df = data, the same object under another name
copy_SameObject(frame) == frame

copy(frame) == [object |-> "df", columns |-> frame.columns]

AddColumns(frame, cols) == [frame EXCEPT !.columns = @ \o cols]

\* the caller's frame after simple_prediction_model returned
FrameAfterPrediction(ml, df, frame) ==
    IF ~ReachesFeatures(ml, df) THEN frame
    ELSE LET features == AddColumns(copy(frame), FeatureColumns)
         IN  IF features.object = frame.object THEN features ELSE frame

(***************************************************************************)
(* The price series the functions are applied to: Len records on           *)
(* consecutive trading days (weekends skipped), closes of a given shape.   *)
(***************************************************************************)
MaxLen == 52
LongLen == 200
FlatTail == 15

Lengths == 0..MaxLen
LongLengths == {LongLen, LongLen + 1}
Shapes == {"flat", "up", "down", "zigzag", "upflat", "vee"}
Bases == <<10, 1, 0, -1>>
InvestmentAmounts == {100, 10000}
DaysAheadValues == {-10, -1, 0, 1, 7, 10, 11, 30, 60}
TestMSE == {<<1, 2>>, <<1, 1>>, <<3, 1>>, <<3, 2>>}

SklearnMSE(m) ==
    [name \in {ModelNames[1], ModelNames[2]} |->
        IF name = ModelNames[1] THEN Num(m[1]) ELSE Num(m[2])]

TradingDay(i) == i + 2 * ((i - 1) \div 5)

Price(shape, base, len, i) ==
    CASE shape = "flat" -> base
      [] shape = "up" -> base + i - 1
      [] shape = "down" -> base + len - i
      [] shape = "zigzag" -> base + ((i - 1) % 2)
      [] shape = "upflat" ->
            LET rise == IF len > FlatTail THEN len - FlatTail ELSE 0
            IN  base + (IF i < rise THEN i ELSE rise)
      [] shape = "vee" -> base + Abs(i - ((len + 1) \div 2))

SeriesOf(shape, base, len) ==
    [i \in 1..len |-> [Date |-> TradingDay(i),
                       Close |-> Price(shape, base, len, i),
                       Volume |-> 1000]]

(***************************************************************************)
(* generate_investment_insights(returns, indicators, stock_info)           *)
(*                                                                         *)
(* A dict is a function from its keys to its values, a str is the sequence *)
(* of its characters, and a message is kept by the name of its template.   *)
(***************************************************************************)
UpperCase == <<"A", "B", "C", "D", "E", "F", "G", "H", "I", "J", "K", "L", "M",
               "N", "O", "P", "Q", "R", "S", "T", "U", "V", "W", "X", "Y", "Z">>
LowerCase == <<"a", "b", "c", "d", "e", "f", "g", "h", "i", "j", "k", "l", "m",
               "n", "o", "p", "q", "r", "s", "t", "u", "v", "w", "x", "y", "z">>

LowerChar(ch) ==
    IF \E i \in 1..Len(UpperCase) : UpperCase[i] = ch
    THEN LowerCase[CHOOSE i \in 1..Len(UpperCase) : UpperCase[i] = ch]
    ELSE ch

\* str.lower()
lower(str) == [i \in 1..Len(str) |-> LowerChar(str[i])]

\* needle in hay, on strings
Contains(hay, needle) ==
    \E i \in 0..(Len(hay) - Len(needle)) : SubSeq(hay, i + 1, i + Len(needle)) = needle

Technology == <<"t", "e", "c", "h", "n", "o", "l", "o", "g", "y">>
Healthcare == <<"h", "e", "a", "l", "t", "h", "c", "a", "r", "e">>
Financial == <<"f", "i", "n", "a", "n", "c", "i", "a", "l">>

HasKey(dict, key) == key \in DOMAIN dict

\* dict.get(key, default)
Get(dict, key, default) == IF HasKey(dict, key) THEN dict[key] ELSE default

Str(chars) == [type |-> "str", chars |-> chars]
NoneValue == [type |-> "NoneType", chars |-> <<>>]

\* the outcome of one rule: the messages it appends, or an exception
Msgs(seq) == [raised |-> FALSE, msgs |-> seq]
Raise == [raised |-> TRUE, msgs |-> <<>>]

\* Performance insights: returns['percent_return'] raises KeyError when absent
PerformanceInsight(ret) ==
    IF ~HasKey(ret, "percent_return") THEN Raise
    ELSE IF Gt(ret["percent_return"], Num(20)) THEN Msgs(<<"Strong Performance">>)
    ELSE IF Gt(ret["percent_return"], Num(10)) THEN Msgs(<<"Good Performance">>)
    ELSE IF Gt(ret["percent_return"], Num(0)) THEN Msgs(<<"Positive Returns">>)
    ELSE Msgs(<<"Negative Returns">>)

\* Risk insights
VolatilityInsight(ret) ==
    IF ~HasKey(ret, "volatility") THEN Raise
    ELSE IF Gt(ret["volatility"], Num(40)) THEN Msgs(<<"High Volatility">>)
    ELSE IF Gt(ret["volatility"], Num(25)) THEN Msgs(<<"Moderate Volatility">>)
    ELSE Msgs(<<"Low Volatility">>)

\* Technical insights: skipped when the indicators dict is empty
TechnicalInsight(ind) ==
    IF DOMAIN ind = {} THEN Msgs(<<>>)
    ELSE Msgs((IF Gt(Get(ind, "RSI", Num(50)), Num(70))
               THEN <<"Overbought Territory">>
               ELSE IF Lt(Get(ind, "RSI", Num(50)), Num(30))
               THEN <<"Oversold Territory">>
               ELSE <<>>)
              \o
              (IF Gt(Get(ind, "price_vs_ma20", Num(0)), Num(5))
               THEN <<"Above Moving Average">>
               ELSE IF Lt(Get(ind, "price_vs_ma20", Num(0)), Num(-5))
               THEN <<"Below Moving Average">>
               ELSE <<>>))

\* Sector insights: .lower() raises AttributeError on a value that is no str
SectorInsight_CaseSensitive(info) ==
    LET value == Get(info, "sector", Str(<<>>))
        sector == value.chars
    IN  IF value.type # "str" THEN Raise
        ELSE IF Contains(sector, Technology) THEN Msgs(<<"Tech Sector">>)
        ELSE IF Contains(sector, Healthcare) THEN Msgs(<<"Healthcare">>)
        ELSE IF Contains(sector, Financial) THEN Msgs(<<"Financials">>)
        ELSE Msgs(<<>>)

SectorInsight(info) ==
    LET value == Get(info, "sector", Str(<<>>))
        sector == lower(value.chars)
    IN  IF value.type # "str" THEN Raise
        ELSE IF Contains(sector, Technology) THEN Msgs(<<"Tech Sector">>)
        ELSE IF Contains(sector, Healthcare) THEN Msgs(<<"Healthcare">>)
        ELSE IF Contains(sector, Financial) THEN Msgs(<<"Financials">>)
        ELSE Msgs(<<>>)

\* Drawdown warning
DrawdownInsight(ret) ==
    IF ~HasKey(ret, "max_drawdown") THEN Raise
    ELSE IF Lt(ret["max_drawdown"], Num(-30)) THEN Msgs(<<"High Drawdown">>)
    ELSE Msgs(<<>>)

Fallback == <<"Unable to generate insights">>

\* variant: the except branch keeps the performance message appended before
\* the failure
generate_investment_insights_KeepsAppended(ret, ind, info) ==
    LET rules == <<PerformanceInsight(ret), VolatilityInsight(ret), TechnicalInsight(ind),
                   SectorInsight(info), DrawdownInsight(ret)>>
    IN  IF \E i \in 1..Len(rules) : rules[i].raised
        THEN rules[1].msgs \o Fallback
        ELSE rules[1].msgs \o rules[2].msgs \o rules[3].msgs \o rules[4].msgs
             \o rules[5].msgs

\* variant: the drawdown warning is appended before the sector remark
generate_investment_insights_DrawdownFirst(ret, ind, info) ==
    LET rules == <<PerformanceInsight(ret), VolatilityInsight(ret), TechnicalInsight(ind),
                   SectorInsight(info), DrawdownInsight(ret)>>
    IN  IF \E i \in 1..Len(rules) : rules[i].raised
        THEN Fallback
        ELSE rules[1].msgs \o rules[2].msgs \o rules[3].msgs \o rules[5].msgs
             \o rules[4].msgs

\* the rules run in order inside one try block: an exception in any of them
\* discards what was appended and returns the fallback list
generate_investment_insights(ret, ind, info) ==
    LET rules == <<PerformanceInsight(ret), VolatilityInsight(ret), TechnicalInsight(ind),
                   SectorInsight(info), DrawdownInsight(ret)>>
    IN  IF \E i \in 1..Len(rules) : rules[i].raised
        THEN Fallback
        ELSE rules[1].msgs \o rules[2].msgs \o rules[3].msgs \o rules[4].msgs
             \o rules[5].msgs

(***************************************************************************)
(* The arguments generate_investment_insights is applied to                *)
(***************************************************************************)
Restrict(f, keys) == [k \in keys |-> f[k]]

PercentReturns == {Num(0), Num(10), Num(20), Num(25), NaN}
Volatilities == {Num(25), Num(40), Num(50), NaN}
MaxDrawdowns == {Num(-40), Num(-30), NaN}
RSIValues == {Num(20), Num(30), Num(70), Num(80), NaN}
PriceVsMA20Values == {Num(-10), Num(-5), Num(5), Num(10)}

ReturnsKeys == {"percent_return", "volatility", "max_drawdown"}

ReturnsDicts ==
    {Restrict([percent_return |-> p, volatility |-> v, max_drawdown |-> m], keys) :
        p \in PercentReturns, v \in Volatilities, m \in MaxDrawdowns,
        keys \in {ReturnsKeys} \cup {ReturnsKeys \ {k} : k \in ReturnsKeys}}

IndicatorsDicts ==
    {Restrict([current_price |-> Num(10), RSI |-> r, price_vs_ma20 |-> p], keys) :
        r \in RSIValues, p \in PriceVsMA20Values,
        keys \in {{}, {"current_price"}, {"current_price", "RSI"},
                  {"current_price", "price_vs_ma20"},
                  {"current_price", "RSI", "price_vs_ma20"}}}

Sectors ==
    {<<"T", "e", "c", "h", "n", "o", "l", "o", "g", "y">>,
     <<"H", "e", "a", "l", "t", "h", "c", "a", "r", "e">>,
     <<"F", "i", "n", "a", "n", "c", "i", "a", "l", " ", "S", "e", "r", "v", "i", "c", "e", "s">>,
     <<"H", "e", "a", "l", "t", "h", "c", "a", "r", "e", " ", "T", "e", "c", "h", "n", "o", "l", "o", "g", "y">>,
     <<"F", "i", "n", "a", "n", "c", "i", "a", "l", " ", "T", "e", "c", "h", "n", "o", "l", "o", "g", "y">>,
     <<"C", "o", "n", "s", "u", "m", "e", "r", " ", "D", "i", "s", "c", "r", "e", "t", "i", "o", "n", "a", "r", "y">>,
     <<"U", "n", "k", "n", "o", "w", "n">>,
     <<>>,
     <<"F", "I", "N", "A", "N", "C", "I", "A", "L">>,
     <<"B", "i", "o", "t", "e", "c", "h", "n", "o", "l", "o", "g", "y">>,
     <<"h", "e", "a", "l", "t", "h", " ", "c", "a", "r", "e">>}

StockInfos ==
    {[sector |-> Str(chars)] : chars \in Sectors}
    \cup {[sector |-> NoneValue], [longName |-> Str(<<"X">>)]}

(***************************************************************************)
(* State: the inputs of one call and what it returned                      *)
(***************************************************************************)
VARIABLES
    data,               \* the price data frame
    data_frame,         \* the caller's frame object and its columns
    ML_AVAILABLE,       \* whether the sklearn imports succeeded
    test_mse,           \* the test mse sklearn reported for each fitted model
    rng,                \* the random stream the forest was fitted with
    investment_amount,  \* argument of calculate_returns
    returns,            \* what calculate_returns returned
    indicators,         \* what calculate_technical_indicators returned
    days_ahead,         \* argument of simple_prediction_model
    prediction,         \* what simple_prediction_model returned
    df_rows,            \* the rows of data that df keeps after dropna, as row
                        \* positions in data (derived from data for every call)
    split,              \* the partitions simple_prediction_model fitted on
    repeated,           \* what a second call with the same arguments returned
    returns_arg,        \* arguments of generate_investment_insights
    indicators_arg,
    stock_info,
    insights,           \* what generate_investment_insights returned
    session,            \* st.session_state of app.py and what the last run showed
    fetch,              \* one call of fetch_stock_data, step by step
    portfolio,          \* st.session_state.portfolio, in insertion order
    now,                \* the wall clock as datetime.now() last read it
    news                \* one call of get_stock_news, step by step

seriesVars == <<data, data_frame, ML_AVAILABLE, test_mse, rng, investment_amount,
                returns, indicators, days_ahead, prediction, df_rows, split, repeated>>

insightVars == <<returns_arg, indicators_arg, stock_info, insights>>

appVars == <<session, fetch, portfolio, now, news>>

vars == <<seriesVars, insightVars, appVars>>

\* st.session_state as app.py initialises it, and nothing displayed yet
NewSession ==
    [simulation_run |-> FALSE, last_ticker |-> None, last_results |-> None,
     keys |-> {}, displayed |-> None, stored |-> None]

\* fetch_stock_data before it is called
NotFetching ==
    [pc |-> "idle", weekdays |-> 0, attempt |-> 0, period |-> 1, data |-> None,
     outcomes |-> <<>>, sleeps |-> <<>>, tried |-> <<>>, error_messages |-> <<>>,
     result |-> NotCalled]

\* get_stock_news before it is called
NoNewsCall ==
    [pc |-> "idle", limit |-> 0, attempt |-> 0, outcomes |-> <<>>, sleeps |-> <<>>,
     news |-> None, result |-> NotCalled]

NoAppCall ==
    /\ session = NewSession
    /\ fetch = NotFetching
    /\ portfolio = <<>>
    /\ now = 0
    /\ news = NoNewsCall

Idle == returns = NotCalled /\ indicators = NotCalled /\ prediction = NotCalled

NoSeriesCall ==
    /\ data_frame = CallerFrame
    /\ test_mse = NotCalled
    /\ rng = 0
    /\ investment_amount = 0
    /\ days_ahead = 0
    /\ returns = NotCalled
    /\ indicators = NotCalled
    /\ prediction = NotCalled
    /\ df_rows = <<>>
    /\ split = NotCalled
    /\ repeated = NotCalled

NoInsightsCall ==
    /\ returns_arg = <<>>
    /\ indicators_arg = <<>>
    /\ stock_info = <<>>
    /\ insights = NotCalled

Init ==
    /\ \/ \E shape \in Shapes, b \in 1..Len(Bases), len \in Lengths :
              data = SeriesOf(shape, Bases[b], len)
       \/ \E shape \in Shapes, len \in LongLengths :
              data = SeriesOf(shape, Bases[1], len)
    /\ ML_AVAILABLE \in BOOLEAN
    /\ NoSeriesCall
    /\ NoInsightsCall
    /\ NoAppCall

\* calculate_returns only reads data
CalculateReturns ==
    /\ Idle
    /\ \E amount \in InvestmentAmounts :
           /\ investment_amount' = amount
           /\ returns' = calculate_returns(data, amount)
    /\ UNCHANGED <<data, data_frame, ML_AVAILABLE, test_mse, rng, indicators,
                   days_ahead, prediction, df_rows, split, repeated>>
    /\ UNCHANGED <<insightVars, appVars>>

\* calculate_technical_indicators only reads data
CalculateTechnicalIndicators ==
    /\ Idle
    /\ indicators' = calculate_technical_indicators(data)
    /\ UNCHANGED <<data, data_frame, ML_AVAILABLE, test_mse, rng, investment_amount,
                   returns, days_ahead, prediction, df_rows, split, repeated>>
    /\ UNCHANGED <<insightVars, appVars>>

\* rows: the data frame after feature derivation and dropna, computed once
PredictWith(rows) ==
    \E days \in DaysAheadValues, m \in TestMSE, seed \in RandomState(RandomForestSeed) :
        /\ days_ahead' = days
        /\ test_mse' = SklearnMSE(m)
        /\ rng' = seed
        /\ prediction' =
               simple_prediction_model(ML_AVAILABLE, data, rows, days, SklearnMSE(m))
        /\ df_rows' = rows
        /\ split' = TrainTestSplit(ML_AVAILABLE, data, rows)

SimplePredictionModel ==
    /\ Idle
    /\ PredictWith(prepare_features(data))
    /\ data_frame' = FrameAfterPrediction(ML_AVAILABLE, data, data_frame)
    /\ UNCHANGED <<data, ML_AVAILABLE, investment_amount, returns, indicators, repeated>>
    /\ UNCHANGED <<insightVars, appVars>>

Next ==
    \/ CalculateReturns
    \/ CalculateTechnicalIndicators
    \/ SimplePredictionModel

Spec == Init /\ [][Next]_vars

(***************************************************************************)
(* The same call made twice: calculate_technical_indicators on the same    *)
(* series, simple_prediction_model on the same series and days_ahead.      *)
(* sklearn's fit is a function of the training rows and, for the forest,   *)
(* of its random stream: the second call sees the first call's test mse    *)
(* for the linear regression, and for the forest when the stream is the    *)
(* same.                                                                   *)
(***************************************************************************)
RepeatLengths == {0, 1, 14, 15, 19, 20, 21, 29, 30, 31, 32, 45}

InitRepeat ==
    /\ \E shape \in Shapes, len \in RepeatLengths : data = SeriesOf(shape, Bases[1], len)
    /\ ML_AVAILABLE \in BOOLEAN
    /\ NoSeriesCall
    /\ NoInsightsCall
    /\ NoAppCall

RepeatTechnicalIndicators ==
    /\ indicators # NotCalled
    /\ repeated = NotCalled
    /\ repeated' = calculate_technical_indicators(data)
    /\ UNCHANGED <<data, data_frame, ML_AVAILABLE, test_mse, rng, investment_amount,
                   returns, indicators, days_ahead, prediction, df_rows, split>>
    /\ UNCHANGED <<insightVars, appVars>>

RepeatPredictionModel ==
    /\ prediction # NotCalled
    /\ repeated = NotCalled
    /\ \E m \in TestMSE, seed \in RandomState(RandomForestSeed) :
           /\ SklearnMSE(m)[ModelNames[1]] = test_mse[ModelNames[1]]
           /\ seed = rng => SklearnMSE(m)[ModelNames[2]] = test_mse[ModelNames[2]]
           /\ repeated' =
                  simple_prediction_model(ML_AVAILABLE, data, df_rows, days_ahead,
                                          SklearnMSE(m))
    /\ data_frame' = FrameAfterPrediction(ML_AVAILABLE, data, data_frame)
    /\ UNCHANGED <<data, ML_AVAILABLE, test_mse, rng, investment_amount, returns,
                   indicators, days_ahead, prediction, df_rows, split>>
    /\ UNCHANGED <<insightVars, appVars>>

NextRepeat ==
    \/ CalculateTechnicalIndicators
    \/ SimplePredictionModel
    \/ RepeatTechnicalIndicators
    \/ RepeatPredictionModel

SpecRepeat == InitRepeat /\ [][NextRepeat]_vars

(***************************************************************************)
(* generate_investment_insights applied to one triple of arguments         *)
(***************************************************************************)
InitInsights ==
    /\ data = <<>>
    /\ ML_AVAILABLE = TRUE
    /\ NoSeriesCall
    /\ NoInsightsCall
    /\ NoAppCall

GenerateInvestmentInsights ==
    /\ insights = NotCalled
    /\ \E ret \in ReturnsDicts, ind \in IndicatorsDicts, info \in StockInfos :
           /\ returns_arg' = ret
           /\ indicators_arg' = ind
           /\ stock_info' = info
           /\ insights' = [status |-> "returned",
                           messages |-> generate_investment_insights(ret, ind, info)]
    /\ UNCHANGED <<seriesVars, appVars>>

NextInsights == GenerateInvestmentInsights

SpecInsights == InitInsights /\ [][NextInsights]_vars

(***************************************************************************)
(* Claims                                                                  *)
(***************************************************************************)
Close == Column(data, "Close")

\* C1: whenever simple_prediction_model returns a result (days_ahead >= 1),
\* 'predictions' and 'dates' have the same length, and it is days_ahead.
C1_PredictionsAndDatesHaveDaysAheadEntries ==
    (prediction.status = "ok" /\ days_ahead >= 1) =>
        /\ Len(prediction.predictions) = Len(prediction.dates)
        /\ Len(prediction.dates) = days_ahead

\* C2: calculate_returns returns no result for a series of fewer than 2 records.
C2_NoResultBelowTwoRecords ==
    Len(data) < 2 => returns.status # "ok"

\* C3: calculate_returns returns no result when the first close is <= 0, so no
\* result carries shares or a final value that is infinite, NaN or negative.
C3_NoResultForNonPositiveFirstPrice ==
    returns.status = "ok" =>
        /\ data[1].Close > 0
        /\ IsFinite(returns.shares) /\ returns.shares.n >= 0
        /\ IsFinite(returns.final_value)

\* C4: in every result of calculate_returns for a series of 1 or 2 records
\* (fewer than 2 daily returns) the volatility is 0, never NaN.
C4_VolatilityZeroBelowTwoObservations ==
    (returns.status = "ok" /\ Len(data) <= 2) => returns.volatility = "zero"

\* the price_vs_ma value the specification gives for one moving average
ExpectedPriceVsMA(current_price, ma) ==
    IF IsNaN(ma) \/ ma = Num(0) THEN Num(0)
    ELSE Mul(Div(Sub(current_price, ma), ma), Hundred)

\* C5: price_vs_ma<k> is 0 when MA_k is NaN or zero, and otherwise
\* (current_price - MA_k) / MA_k * 100, for k in {20, 50, 200}.
C5_PriceVsMAZeroWhenMAUndefined ==
    indicators.status = "ok" =>
        /\ indicators.price_vs_ma20
               = ExpectedPriceVsMA(indicators.current_price, indicators.MA_20)
        /\ indicators.price_vs_ma50
               = ExpectedPriceVsMA(indicators.current_price, indicators.MA_50)
        /\ indicators.price_vs_ma200
               = ExpectedPriceVsMA(indicators.current_price, indicators.MA_200)

\* C6: for a series of at least 15 records the RSI of the last record is a
\* number in [0, 100], and it is 100 when the average loss of the window is 0.
C6_RSIDefinedAndBounded ==
    (indicators.status = "ok" /\ Len(data) >= 15) =>
        /\ ~IsNaN(indicators.RSI)
        /\ ~Lt(indicators.RSI, Num(0))
        /\ ~Gt(indicators.RSI, Hundred)
        /\ (SumRange(Losses(diff(Close)), Len(data) - 13, Len(data)) = Num(0)
               => indicators.RSI = Hundred)

\* the momentum the specification gives for one lookback
ExpectedPriceChange(close, lookback) ==
    LET n == Len(close)
    IN  IF n >= lookback + 1
        THEN Mul(Div(Sub(close[n], close[n - lookback]), close[n - lookback]), Hundred)
        ELSE Num(0)

\* C7: price_change_20d is the percent change from close[-21] to close[-1] for
\* every series of at least 21 records and 0 for a shorter one; price_change_50d
\* likewise with close[-51] and 51 records.
C7_MomentumFromLookbackPlusOneRecords ==
    indicators.status = "ok" =>
        /\ indicators.price_change_20d = ExpectedPriceChange(Close, 20)
        /\ indicators.price_change_50d = ExpectedPriceChange(Close, 50)

\* fewer than 30 records, or fewer than 10 rows after the features are derived
\* and the rows with an undefined value are dropped
TooShortToForecast ==
    Len(data) < 30 \/ Len(prepare_features(data)) < 10

ResultExactlyWhen(enough) ==
    IF enough THEN prediction.status = "ok" ELSE prediction.status = "None"

NoForecast == ~ML_AVAILABLE \/ Len(data) < 30 \/ Len(df_rows) < 10

C9_DatesFollowLastDateOfSeries ==
    (prediction.status = "ok" /\ days_ahead >= 1) =>
        /\ Len(prediction.dates) = days_ahead
        /\ prediction.dates[1] = data[Len(data)].Date + 1
        /\ \A j \in 2..days_ahead : prediction.dates[j] = prediction.dates[j - 1] + 1

\* the sector remarks among the messages returned
SectorMessages == {"Tech Sector", "Healthcare", "Financials"}

IsSectorMessage(m) == m \in SectorMessages

SectorRemarks == SelectSeq(insights.messages, IsSectorMessage)

GivenSector ==
    IF HasKey(stock_info, "sector") THEN lower(stock_info["sector"].chars) ELSE <<>>

NormalReturn == insights.status = "returned" /\ insights.messages # Fallback

\* C10, as the specification words it: one sector remark for each vocabulary
\* word that occurs in the lower-cased sector string, and none when no word
\* occurs.
C10_OneRemarkPerVocabularyWord ==
    NormalReturn =>
        SectorRemarks =
            (IF Contains(GivenSector, Technology) THEN <<"Tech Sector">> ELSE <<>>)
            \o (IF Contains(GivenSector, Healthcare) THEN <<"Healthcare">> ELSE <<>>)
            \o (IF Contains(GivenSector, Financial) THEN <<"Financials">> ELSE <<>>)

\* C10, as the code has it: at most one sector remark is emitted, that of the first
\* vocabulary word, in the order technology, healthcare, financial, that occurs
\* (case-insensitively, as a substring) in the sector string; none when no
\* word occurs.
C10_RemarkOfFirstVocabularyWord ==
    NormalReturn =>
        SectorRemarks =
            IF Contains(GivenSector, Technology) THEN <<"Tech Sector">>
            ELSE IF Contains(GivenSector, Healthcare) THEN <<"Healthcare">>
            ELSE IF Contains(GivenSector, Financial) THEN <<"Financials">>
            ELSE <<>>

\* a sector with two vocabulary words in mixed case gave one remark
C10_Witness ==
    /\ NormalReturn
    /\ Contains(GivenSector, Technology)
    /\ Contains(GivenSector, Healthcare)
    /\ ~Contains(stock_info["sector"].chars, Healthcare)
    /\ SectorRemarks = <<"Tech Sector">>

\* a rule of generate_investment_insights fails: a key of returns it indexes is
\* missing, or the sector is present and not a string
RuleFails ==
    \/ ~(ReturnsKeys \subseteq DOMAIN returns_arg)
    \/ HasKey(stock_info, "sector") /\ stock_info["sector"].type # "str"

\* C11: generate_investment_insights never raises, and when a rule fails the
\* result is exactly the one-element fallback sequence, with none of the
\* messages appended before the failure.
C11_FallbackAloneOnFailure ==
    /\ insights.status \in {"not_called", "returned"}
    /\ (insights.status = "returned" /\ RuleFails) => insights.messages = Fallback

\* the last rule failed (no 'max_drawdown') after the earlier rules had
\* appended their messages
C11_Witness ==
    /\ insights.status = "returned"
    /\ DOMAIN returns_arg = ReturnsKeys \ {"max_drawdown"}
    /\ HasKey(stock_info, "sector") /\ stock_info["sector"].type = "str"
    /\ insights.messages = Fallback

\* C12: none of calculate_returns, calculate_technical_indicators and
\* simple_prediction_model propagates an exception to its caller, for any
\* series and any integer days_ahead.
C12_NoEntryPointRaises ==
    /\ returns.status # "raised"
    /\ indicators.status # "raised"
    /\ prediction.status # "raised"

\* no close is lower than the close of the record before it
NeverDecreases == \A i \in 2..Len(data) : data[i].Close >= data[i - 1].Close

\* C13: calculate_returns reports max_drawdown = 0 for every series of at
\* least 2 records whose closes never decrease, and max_drawdown <= 0 in
\* every result it produces.
C13_NoDrawdownWithoutDecline ==
    returns.status = "ok" =>
        /\ (Len(data) >= 2 /\ NeverDecreases) => returns.max_drawdown = Num(0)
        /\ ~IsNaN(returns.max_drawdown) /\ ~Gt(returns.max_drawdown, Num(0))

\* the fraction q (in lowest terms or not) is num / den, for den > 0
IsRatio(q, num, den) == IsFinite(q) /\ q.n * den = num * q.d

\* C14: for every series of at least 2 records with a positive first close
\* and every positive investment, shares = investment / close[0],
\* final_value = shares * close[-1], total_return = final_value - investment,
\* percent_return = (final_value / investment - 1) * 100, and days_invested
\* is the number of records.
C14_ReturnsFollowFirstAndLastClose ==
    (returns.status = "ok" /\ Len(data) >= 2 /\ data[1].Close > 0) =>
        LET first == data[1].Close
            last == data[Len(data)].Close
            amount == investment_amount
        IN  /\ amount > 0
            /\ returns.initial_investment = amount
            /\ IsRatio(returns.shares, amount, first)
            /\ IsRatio(returns.final_value, amount * last, first)
            /\ IsRatio(returns.total_return, amount * last - amount * first, first)
            /\ IsRatio(returns.percent_return, 100 * (last - first), first)
            /\ returns.days_invested = Len(data)

\* 10000 invested in a series rising from 10 to 15: 1000 shares, worth 15000,
\* a return of 50 percent
C14_Witness ==
    /\ returns.status = "ok"
    /\ Len(data) >= 2 /\ data[1].Close = 10 /\ data[Len(data)].Close = 15
    /\ investment_amount = 10000
    /\ returns.shares = Num(1000)
    /\ returns.final_value = Num(15000)
    /\ returns.total_return = Num(5000)
    /\ returns.percent_return = Num(50)

\* a Bollinger band is NaN when the rolling mean or the rolling deviation is
BandUndefined(band) == IsNaN(band.mean) \/ IsNaN(band.var)

\* C15: calculate_technical_indicators never raises, returns the empty
\* mapping for an empty series, and for every non-empty series shorter than
\* 20 records returns a non-empty mapping whose MA_20, BB_upper and BB_lower
\* are NaN.
C15_ShortSeriesGiveUndefinedAverages ==
    /\ indicators.status \in {"not_called", "empty", "ok"}
    /\ (indicators.status # "not_called" /\ Len(data) = 0) => indicators.status = "empty"
    /\ (indicators.status # "not_called" /\ Len(data) \in 1..19) =>
           /\ indicators.status = "ok"
           /\ IsNaN(indicators.MA_20)
           /\ BandUndefined(indicators.BB_upper)
           /\ BandUndefined(indicators.BB_lower)

\* 19 records: one short of the window, and a mapping with a current price
C15_Witness ==
    /\ Len(data) = 19
    /\ indicators.status = "ok"
    /\ IsNaN(indicators.MA_20)
    /\ indicators.current_price = Num(data[19].Close)

\* the test mse of the two fitted candidates
LinearMSE == test_mse["Linear Regression"]

ForestMSE == test_mse["Random Forest"]

\* C16: the result keeps the candidate with the lower test mse: 'mse' is the
\* minimum of the two, 'model_name' names the model that attained it (Linear
\* Regression on a tie), and every prediction comes from that model.
C16_LowerTestErrorModelKept ==
    prediction.status = "ok" =>
        /\ prediction.mse = (IF Lt(ForestMSE, LinearMSE) THEN ForestMSE ELSE LinearMSE)
        /\ prediction.model_name
               = (IF Lt(ForestMSE, LinearMSE) THEN "Random Forest" ELSE "Linear Regression")
        /\ \A j \in 1..Len(prediction.predictions) :
               prediction.predictions[j].model = prediction.model_name

\* the two candidates tied and the linear regression made the predictions
C16_Witness ==
    /\ prediction.status = "ok"
    /\ LinearMSE = ForestMSE
    /\ prediction.model_name = "Linear Regression"
    /\ Len(prediction.predictions) >= 1
    /\ prediction.predictions[1].model = "Linear Regression"

\* k is floor(0.8 * n)
IsFloorOfFourFifths(k, n) == 5 * k <= 4 * n /\ 4 * n < 5 * (k + 1)

\* C17: the split is chronological: with n usable rows the training set is
\* the first floor(0.8 * n) rows in series order and the test set the rest,
\* both non-empty when n >= 10, no test row precedes a training row, and the
\* scaler is fitted on the training rows only.
C17_ChronologicalSplit ==
    /\ prediction.status = "ok" => split.status = "fitted"
    /\ split.status = "fitted" =>
           LET n == Len(df_rows)
               k == Len(split.X_train)
           IN  /\ n >= 10
               /\ IsFloorOfFourFifths(k, n)
               /\ split.X_train = SubSeq(df_rows, 1, k)
               /\ split.X_test = SubSeq(df_rows, k + 1, n)
               /\ k >= 1 /\ n - k >= 1
               /\ \A i \in 1..k, j \in 1..(n - k) :
                      data[split.X_train[i]].Date < data[split.X_test[j]].Date
               /\ split.scaler_fit = split.X_train

\* 11 usable rows: 8 to train on (0.8 * 11 = 8.8) and 3 to test on
C17_Witness ==
    /\ prediction.status = "ok"
    /\ split.status = "fitted"
    /\ Len(df_rows) = 11
    /\ Len(split.X_train) = 8
    /\ Len(split.X_test) = 3

\* the category of a message: 1 performance, 2 volatility, 3 RSI, 4 trend
\* (price against the 20-day average), 5 sector, 6 drawdown warning
Category(m) ==
    CASE m \in {"Strong Performance", "Good Performance", "Positive Returns",
                "Negative Returns"} -> 1
      [] m \in {"High Volatility", "Moderate Volatility", "Low Volatility"} -> 2
      [] m \in {"Overbought Territory", "Oversold Territory"} -> 3
      [] m \in {"Above Moving Average", "Below Moving Average"} -> 4
      [] m \in SectorMessages -> 5
      [] m = "High Drawdown" -> 6
      [] OTHER -> 0

\* C18: every result that is not the fallback starts with one performance
\* message and one volatility message, any further messages follow in the
\* order RSI, trend, sector, drawdown warning with each category at most
\* once, and RSI and trend messages occur only when the indicators mapping is
\* not empty.
C18_MessagesInFixedOrder ==
    NormalReturn =>
        LET msgs == insights.messages
        IN  /\ Len(msgs) >= 2
            /\ Category(msgs[1]) = 1
            /\ Category(msgs[2]) = 2
            /\ \A i \in 1..(Len(msgs) - 1) : Category(msgs[i]) < Category(msgs[i + 1])
            /\ DOMAIN indicators_arg = {} =>
                   \A i \in 1..Len(msgs) : Category(msgs[i]) \notin {3, 4}

\* a result with a message of each of the six categories
C18_Witness ==
    /\ NormalReturn
    /\ Len(insights.messages) = 6
    /\ \A i \in 1..6 : Category(insights.messages[i]) = i

\* C19: no call of calculate_returns, calculate_technical_indicators or
\* simple_prediction_model changes the price series it is given: the caller's
\* frame has the same columns, rows and values after the call as before.
C19_InputSeriesNotMutated ==
    [][data' = data /\ data_frame' = data_frame]_vars

\* simple_prediction_model derived its feature columns and returned a result,
\* and the caller's frame still has the columns it was passed with
C19_Witness ==
    /\ prediction.status = "ok"
    /\ Len(df_rows) >= 10
    /\ data_frame = CallerFrame

\* the result of the first of the two calls
FirstResult == IF indicators # NotCalled THEN indicators ELSE prediction

DeclinesSomewhere ==
    \E i \in 1..Len(data) : \E j \in (i + 1)..Len(data) : data[j].Close < data[i].Close

\* C26: max_drawdown counts the initial price as a possible peak: for a series
\* of positive closes, whenever some close is lower than an earlier close
\* (close[0] included) max_drawdown < 0, and max_drawdown = 0 only if the
\* closes never decline.
C26_InitialPriceIsAPeak ==
    (returns.status = "ok" /\ Len(data) >= 2 /\ \A i \in 1..Len(data) : data[i].Close > 0) =>
        /\ DeclinesSomewhere => Lt(returns.max_drawdown, Num(0))
        /\ returns.max_drawdown = Num(0) => ~DeclinesSomewhere

(***************************************************************************)
(* fetch_stock_data(ticker, start_date): one step per download, with what  *)
(* yfinance answers drawn from the outcomes the code distinguishes         *)
(***************************************************************************)
max_retries == 3
retry_delay == 2
MinWeekdays == 10
Periods == <<"1y", "6mo", "3mo", "1mo">>

\* row counts around the acceptance threshold, weekdays around MinWeekdays
RowCounts == {0, 4, 5, 6}
WeekdayCounts == {MinWeekdays - 1, MinWeekdays}

Frame(rows) == [status |-> "frame", rows |-> rows]

\* what a download can answer: an exception (rate limit or other), None, or
\* a frame; rows counts the rows on or after start_date, total all the rows
DownloadOutcomes ==
    {[kind |-> "rate_limit"], [kind |-> "error"], [kind |-> "None"]}
    \cup {[kind |-> "frame", rows |-> p[1], total |-> p[2]] :
             p \in {q \in RowCounts \X RowCounts : q[2] >= q[1]}}

\* len(data) > 5
Accepted(rows) == rows > 5

\* data is None or len(data) < 5, the guard of strategies 2 and 3
NeedsData(d) == d = None \/ d.rows < 5

\* retry_delay * (2 ** attempt)
backoff_delay_Fixed(attempt) == retry_delay

backoff_delay(attempt) == retry_delay * 2^attempt

Goto(f, strategy, name) == [f EXCEPT !.pc = name, !.tried = Append(@, strategy)]

\* the guards evaluated on the way from strategy 1 to the next strategy run
LeaveStrategy1(f) ==
    IF NeedsData(f.data) THEN Goto(f, 2, "strategy2") ELSE Goto(f, 4, "strategy4")

LeaveStrategy2(f) ==
    IF NeedsData(f.data) THEN Goto(f, 3, "strategy3") ELSE Goto(f, 4, "strategy4")

Returned(d, message) == [status |-> "returned", data |-> d, message |-> message]

\* one pass of the retry loop of strategy 1
DownloadAttempt(f, o) ==
    LET g == [f EXCEPT !.outcomes = Append(@, o.kind)]
    IN  CASE o.kind = "frame" ->
                 IF Accepted(o.rows)
                 THEN [g EXCEPT !.data = Frame(o.rows), !.pc = "process"]
                 ELSE LeaveStrategy1([g EXCEPT !.data = Frame(o.rows)])
          [] o.kind = "None" -> LeaveStrategy1([g EXCEPT !.data = None])
          [] o.kind = "rate_limit" ->
                 IF f.attempt < max_retries - 1
                 THEN [g EXCEPT !.sleeps = Append(@, <<1, backoff_delay(f.attempt)>>),
                                !.attempt = @ + 1]
                 ELSE LeaveStrategy1([g EXCEPT !.error_messages =
                                                   Append(@, "Rate limit exceeded")])
          [] o.kind = "error" ->
                 LET h == [g EXCEPT !.error_messages = Append(@, "Download attempt failed")]
                 IN  IF f.attempt = max_retries - 1
                     THEN LeaveStrategy1(h)
                     ELSE [h EXCEPT !.attempt = @ + 1]

\* the next period of strategy 2, or the end of its loop
NextPeriod(f) ==
    IF f.period < Len(Periods) THEN [f EXCEPT !.period = @ + 1] ELSE LeaveStrategy2(f)

\* one pass of the loop of strategy 2 over the periods
HistoryAttempt(f, o) ==
    LET g == [f EXCEPT !.sleeps = Append(@, <<2, 1>>)]
    IN  CASE o.kind = "frame" ->
                 IF Accepted(o.total) /\ o.rows > 0
                 THEN IF Accepted(o.rows)
                      THEN [g EXCEPT !.data = Frame(o.rows), !.pc = "process"]
                      ELSE NextPeriod([g EXCEPT !.data = Frame(o.rows)])
                 ELSE NextPeriod([g EXCEPT !.data = Frame(o.total)])
          [] o.kind = "None" -> NextPeriod([g EXCEPT !.data = None])
          [] OTHER -> NextPeriod(g)

\* strategy 3: the frame is not filtered by start_date; len(None) raises
MinimalDownload(f, o) ==
    LET g == [f EXCEPT !.sleeps = Append(@, <<3, 2>>)]
    IN  CASE o.kind = "frame" ->
                 IF Accepted(o.total)
                 THEN [g EXCEPT !.data = Frame(o.total), !.pc = "process"]
                 ELSE Goto([g EXCEPT !.data = Frame(o.total)], 4, "strategy4")
          [] o.kind = "None" ->
                 Goto([g EXCEPT !.data = None,
                                !.error_messages = Append(@, "Minimal download failed")],
                      4, "strategy4")
          [] OTHER ->
                 Goto([g EXCEPT !.error_messages = Append(@, "Minimal download failed")],
                      4, "strategy4")

\* process_stock_data(data, ticker): the frame with its stock info, or
\* (None, message) when its body raises
process_stock_data(d, raises) ==
    IF raises THEN Returned(None, "Error processing data")
    ELSE IF d = None \/ d.rows = 0 THEN Returned(None, "No data available")
    ELSE Returned(d, "stock_info")

\* generate_sample_data: one row per weekday of the range, None under MinWeekdays
generate_sample_data(weekdays) ==
    IF weekdays < MinWeekdays THEN None ELSE Frame(weekdays)

\* strategy 4 and the failure result
SampleOrFailure(weekdays) ==
    IF generate_sample_data(weekdays) # None
    THEN Returned(generate_sample_data(weekdays), "sample_stock_info")
    ELSE Returned(None, "Could not fetch data")

FetchStockData ==
    /\ fetch.pc = "idle"
    /\ \E w \in WeekdayCounts :
           fetch' = [NotFetching EXCEPT !.pc = "strategy1", !.weekdays = w, !.tried = <<1>>]
    /\ UNCHANGED <<seriesVars, insightVars, session, portfolio, now, news>>

Strategy1 ==
    /\ fetch.pc = "strategy1"
    /\ \E o \in DownloadOutcomes : fetch' = DownloadAttempt(fetch, o)
    /\ UNCHANGED <<seriesVars, insightVars, session, portfolio, now, news>>

Strategy2 ==
    /\ fetch.pc = "strategy2"
    /\ \E o \in DownloadOutcomes : fetch' = HistoryAttempt(fetch, o)
    /\ UNCHANGED <<seriesVars, insightVars, session, portfolio, now, news>>

Strategy3 ==
    /\ fetch.pc = "strategy3"
    /\ \E o \in DownloadOutcomes : fetch' = MinimalDownload(fetch, o)
    /\ UNCHANGED <<seriesVars, insightVars, session, portfolio, now, news>>

ProcessStockData ==
    /\ fetch.pc = "process"
    /\ \E raises \in BOOLEAN :
           fetch' = [fetch EXCEPT !.pc = "done",
                                  !.result = process_stock_data(fetch.data, raises)]
    /\ UNCHANGED <<seriesVars, insightVars, session, portfolio, now, news>>

Strategy4 ==
    /\ fetch.pc = "strategy4"
    /\ fetch' = [fetch EXCEPT !.pc = "done", !.result = SampleOrFailure(fetch.weekdays)]
    /\ UNCHANGED <<seriesVars, insightVars, session, portfolio, now, news>>

InitFetch ==
    /\ data = <<>>
    /\ ML_AVAILABLE = TRUE
    /\ NoSeriesCall
    /\ NoInsightsCall
    /\ NoAppCall

NextFetch ==
    \/ FetchStockData
    \/ Strategy1
    \/ Strategy2
    \/ Strategy3
    \/ ProcessStockData
    \/ Strategy4

SpecFetch == InitFetch /\ [][NextFetch]_vars

\* C22: fetch_stock_data generates sample data only after strategies 1, 2
\* and 3 have each been attempted: no outcome of an earlier strategy, such as
\* a result of exactly 5 rows, makes it skip a later live strategy.
C22_SampleDataOnlyAfterLiveStrategies ==
    fetch.pc = "strategy4" => fetch.tried = <<1, 2, 3, 4>>

\* strategy 1 has run to its end
Strategy1Over == fetch.pc \notin {"idle", "strategy1"}

\* every download attempt of strategy 1 failed with a rate-limit error
AllRateLimited == \A i \in DOMAIN fetch.outcomes : fetch.outcomes[i] = "rate_limit"

\* the seconds slept inside strategy 1, in order
Waits1 ==
    LET slept == SelectSeq(fetch.sleeps, LAMBDA s : s[1] = 1)
    IN  [i \in 1..Len(slept) |-> slept[i][2]]

\* a download that returned without exception was the last attempt
NeverRetriedAfterReturn ==
    \A i \in DOMAIN fetch.outcomes :
        fetch.outcomes[i] \in {"frame", "None"} => i = Len(fetch.outcomes)

C28_FailureOnlyAfterAllStrategies ==
    fetch.result # NotCalled =>
        /\ fetch.result.data = None => fetch.tried = <<1, 2, 3, 4>>
        /\ fetch.weekdays >= MinWeekdays => fetch.result.data # None

(***************************************************************************)
(* portfolio.add_to_portfolio: the portfolio dict as the sequence of its   *)
(* entries in insertion order, each entry reduced to ticker and date_added *)
(***************************************************************************)
MaxPortfolio == 10

TickersOf(p) == {p[i].ticker : i \in DOMAIN p}

EntryOf(p, ticker) == p[CHOOSE i \in DOMAIN p : p[i].ticker = ticker]

\* min(portfolio.keys(), key=date_added): the first key, in insertion order,
\* whose date_added is the least
oldest_key_Newest(p) ==
    LET i == CHOOSE k \in DOMAIN p :
                 /\ \A j \in DOMAIN p : p[k].date_added >= p[j].date_added
                 /\ \A j \in 1..(k - 1) : p[j].date_added < p[k].date_added
    IN  p[i].ticker

oldest_key(p) ==
    LET i == CHOOSE k \in DOMAIN p :
                 /\ \A j \in DOMAIN p : p[k].date_added <= p[j].date_added
                 /\ \A j \in 1..(k - 1) : p[j].date_added > p[k].date_added
    IN  p[i].ticker

\* portfolio[ticker] = portfolio_entry: an existing key keeps its position
SetItem(p, entry) ==
    IF entry.ticker \in TickersOf(p)
    THEN [i \in DOMAIN p |-> IF p[i].ticker = entry.ticker THEN entry ELSE p[i]]
    ELSE Append(p, entry)

DelItem(p, ticker) == SelectSeq(p, LAMBDA e : e.ticker # ticker)

\* returns_ok: calculate_returns(data, investment_amount) is not None
add_to_portfolio(p, ticker, returns_ok, date_added) ==
    IF ~returns_ok THEN p
    ELSE LET q == SetItem(p, [ticker |-> ticker, date_added |-> date_added])
         IN  IF Len(q) > MaxPortfolio THEN DelItem(q, oldest_key(q)) ELSE q

\* the tickers of the calls, and the last reading of the clock allowed
PortfolioTickers ==
    <<"T01", "T02", "T03", "T04", "T05", "T06", "T07", "T08", "T09", "T10", "T11", "T12">>
Regulars == {"T01"}
MaxClock == 11
TieUntil == 0

\* two calls read the same time only while the clock is at most TieUntil
Ticks(time) == IF time <= TieUntil THEN {0, 1} ELSE {1}

\* a ticker held now, or the first ticker of PortfolioTickers that is not
NextTickers(p) ==
    (Regulars \cap TickersOf(p))
    \cup {PortfolioTickers[i] : i \in {k \in DOMAIN PortfolioTickers :
              /\ PortfolioTickers[k] \notin TickersOf(p)
              /\ \A j \in 1..(k - 1) : PortfolioTickers[j] \in TickersOf(p)}}

\* datetime.now() is read when the entry is built: it never runs backwards
\* between two calls
AddToPortfolio ==
    /\ \E ticker \in NextTickers(portfolio), returns_ok \in BOOLEAN, tick \in Ticks(now) :
           /\ now + tick <= MaxClock
           /\ now' = IF returns_ok THEN now + tick ELSE now
           /\ portfolio' = add_to_portfolio(portfolio, ticker, returns_ok, now + tick)
    /\ UNCHANGED <<seriesVars, insightVars, session, fetch, news>>

NextPortfolio == AddToPortfolio

SpecPortfolio == InitFetch /\ [][NextPortfolio]_vars

\* a call that added ticker: it is held with the newest date, and either it
\* replaced its own entry, or it was appended, or it was appended and the
\* entry evicted was one with the earliest date_added
Added(ticker) ==
    /\ ticker \in TickersOf(portfolio')
    /\ EntryOf(portfolio', ticker).date_added = now'
    /\ \A t \in TickersOf(portfolio') \ {ticker} :
           t \in TickersOf(portfolio) /\ EntryOf(portfolio', t) = EntryOf(portfolio, t)
    /\ IF ticker \in TickersOf(portfolio) \/ Len(portfolio) < MaxPortfolio
       THEN TickersOf(portfolio') = TickersOf(portfolio) \cup {ticker}
       ELSE \E evicted \in TickersOf(portfolio) :
                /\ TickersOf(portfolio') = (TickersOf(portfolio) \ {evicted}) \cup {ticker}
                /\ \A t \in TickersOf(portfolio) :
                       EntryOf(portfolio, evicted).date_added <= EntryOf(portfolio, t).date_added

AppTickers == {"AAPL", "MSFT"}
MaxAppClock == 2

\* a ticker symbol held in the session state
TickerStr(ticker) == [status |-> "str", value |-> ticker]

FetchedColumns == <<"Open", "High", "Low", "Close", "Adj Close", "Volume">>

FetchedData == {None, [object |-> "data", columns |-> FetchedColumns]}

\* data['Investment_Value'] = data[close_col] * shares, on the frame passed
create_price_chart(frame) ==
    IF \E i \in DOMAIN frame.columns : frame.columns[i] = "Investment_Value"
    THEN frame
    ELSE AddColumns(frame, <<"Investment_Value">>)

\* the results page: data is the object held by last_results['data'];
\* compared: the Compare button was pressed and the benchmark was fetched
ShowResults(s, compared) ==
    LET ticker == s.last_results.ticker
    IN  [s EXCEPT !.last_results.data = create_price_chart(@),
                  !.keys = @ \cup {<<"news", ticker>>, <<"news_fetched", ticker>>}
                             \cup (IF compared
                                   THEN {<<"comparison_results", ticker>>,
                                         <<"benchmark_data", ticker>>}
                                   ELSE {}),
                  !.displayed = TickerStr(ticker)]

FreshSimulation(s, ticker, fetched) ==
    LET t == [s EXCEPT !.simulation_run = TRUE, !.last_ticker = TickerStr(ticker)]
    IN  IF fetched = None THEN [t EXCEPT !.displayed = None]
        ELSE ShowResults([t EXCEPT !.last_results = [status |-> "dict",
                                                     ticker |-> ticker,
                                                     data |-> fetched],
                                   !.stored = fetched],
                         FALSE)

MainContent(s, ticker, run_simulation, fetched, compared) ==
    IF run_simulation \/ (s.simulation_run /\ s.last_results # None)
    THEN IF ~run_simulation /\ s.last_results # None
         THEN ShowResults(s, compared)
         ELSE FreshSimulation(s, ticker, fetched)
    ELSE [s EXCEPT !.displayed = None]

RunSimulation ==
    /\ \E ticker \in AppTickers, fetched \in FetchedData :
           session' = MainContent(session, ticker, TRUE, fetched, FALSE)
    /\ UNCHANGED <<seriesVars, insightVars, fetch, portfolio, now, news>>

\* a widget changed: the script runs again with no button pressed
Rerun ==
    /\ \E ticker \in AppTickers :
           session' = MainContent(session, ticker, FALSE, None, FALSE)
    /\ UNCHANGED <<seriesVars, insightVars, fetch, portfolio, now, news>>

CompareWithBenchmark ==
    /\ session.displayed # None
    /\ \E ticker \in AppTickers, fetched \in BOOLEAN :
           session' = MainContent(session, ticker, FALSE, None, fetched)
    /\ UNCHANGED <<seriesVars, insightVars, fetch, portfolio, now, news>>

AddDisplayedToPortfolio ==
    /\ session.displayed # None
    /\ now < MaxAppClock
    /\ now' = now + 1
    /\ portfolio' = add_to_portfolio(portfolio, session.last_results.ticker, TRUE, now + 1)
    /\ \E ticker \in AppTickers :
           session' = MainContent(session, ticker, FALSE, None, FALSE)
    /\ UNCHANGED <<seriesVars, insightVars, fetch, news>>

\* the reset handler, and the run that st.rerun() starts
ResetApp ==
    /\ \E ticker \in AppTickers :
           session' = MainContent([session EXCEPT !.simulation_run = FALSE,
                                                  !.last_ticker = None,
                                                  !.last_results = None,
                                                  !.stored = None],
                                  ticker, FALSE, None, FALSE)
    /\ portfolio' = <<>>
    /\ UNCHANGED <<seriesVars, insightVars, fetch, now, news>>

NextApp ==
    \/ RunSimulation
    \/ Rerun
    \/ CompareWithBenchmark
    \/ AddDisplayedToPortfolio
    \/ ResetApp

SpecApp == InitFetch /\ [][NextApp]_vars

\* C21: whenever last_results is not None its ticker equals last_ticker, and
\* a run never shows the results of a ticker other than last_ticker.
C21_StoredResultsBelongToLastTicker ==
    /\ session.last_results # None => TickerStr(session.last_results.ticker) = session.last_ticker
    /\ session.displayed # None => session.displayed = session.last_ticker

\* C24: after the reset handler runs, simulation_run is False, last_ticker
\* and last_results are None, the portfolio is empty and no comparison,
\* benchmark or news key of an earlier simulation remains in the session.
C24_ResetClearsEverything ==
    [][ResetApp =>
           /\ session'.simulation_run = FALSE
           /\ session'.last_ticker = None
           /\ session'.last_results = None
           /\ portfolio' = <<>>
           /\ session'.keys = {}]_vars

\* C25: the frame stored in last_results['data'] has, at the end of the run,
\* exactly the columns it had when it was stored.
C25_StoredFrameNotModified ==
    session.last_results # None => session.last_results.data = session.stored

(***************************************************************************)
(* news.get_stock_news(ticker, limit): one step per read of stock.news,    *)
(* then the formatting.  A raw article is "titled" (it has a usable        *)
(* title), "untitled" (it formats to the title 'Financial News Update #n') *)
(* or "broken" (formatting it raises, e.g. a summary that is no string);   *)
(* an article of the result is named by where it comes from.               *)
(***************************************************************************)
news_max_retries == 3
SampleArticles == <<"sample", "sample", "sample", "sample", "sample">>
Limits == {1, 2, 3, 6}
ArticleKinds == {"titled", "untitled", "broken"}
RawNews == UNION {[1..n -> ArticleKinds] : n \in 1..3}

\* what reading stock.news can answer
NewsOutcomes ==
    {[kind |-> "empty"], [kind |-> "rate_limit"], [kind |-> "unauthorized"],
     [kind |-> "error"]}
    \cup {[kind |-> "items", items |-> items] : items \in RawNews}

\* seq[:limit] for limit >= 0
FirstItems_All(seq, limit) == seq

FirstItems(seq, limit) == SubSeq(seq, 1, IF limit < Len(seq) THEN limit ELSE Len(seq))

\* the value of the variable news: None or a list of raw articles
List(items) == [status |-> "list", items |-> items]

Articles(list, cause) == [status |-> "returned", articles |-> list, cause |-> cause]

\* the sleep before the next attempt, by what the attempt met
NewsDelay(kind, attempt) ==
    CASE kind = "empty" -> 1 + attempt
      [] kind = "rate_limit" -> 2^attempt
      [] OTHER -> 1

\* the end of one pass of the retry loop that did not break or return
NextAttempt(n, kind) ==
    IF n.attempt < news_max_retries - 1
    THEN [n EXCEPT !.sleeps = Append(@, NewsDelay(kind, n.attempt)), !.attempt = @ + 1]
    ELSE [n EXCEPT !.pc = "format"]

NewsAttempt(n, o) ==
    LET m == [n EXCEPT !.outcomes = Append(@, o.kind)]
    IN  CASE o.kind = "items" -> [m EXCEPT !.news = List(o.items), !.pc = "format"]
          [] o.kind = "empty" -> NextAttempt([m EXCEPT !.news = List(<<>>)], o.kind)
          [] o.kind = "unauthorized" ->
                 [m EXCEPT !.pc = "done", !.result = Articles(<<>>, "unauthorized")]
          [] OTHER -> NextAttempt(m, o.kind)

\* the articles of news[:limit] that format without raising
Formatted(raw, limit) == SelectSeq(FirstItems(raw, limit), LAMBDA a : a # "broken")

get_sample_news(limit) == FirstItems(SampleArticles, limit)

\* lines 63-156: placeholder, formatting and sample fallback
FormatNews(raw, limit) ==
    IF raw = None \/ raw.items = <<>> THEN Articles(<<"placeholder">>, "no_news")
    ELSE LET formatted_news == Formatted(raw.items, limit)
         IN  IF /\ Len(formatted_news) > 0
                /\ \A i \in DOMAIN formatted_news : formatted_news[i] = "untitled"
             THEN Articles(get_sample_news(limit), "sample")
             ELSE Articles(formatted_news, "formatted")

\* critical: the body raises outside the retry loop (outer except)
GetStockNews ==
    /\ news.pc = "idle"
    /\ \E limit \in Limits, critical \in BOOLEAN :
           news' = IF critical
                   THEN [NoNewsCall EXCEPT !.pc = "done", !.limit = limit,
                                           !.result = Articles(<<>>, "critical")]
                   ELSE [NoNewsCall EXCEPT !.pc = "fetching", !.limit = limit]
    /\ UNCHANGED <<seriesVars, insightVars, session, fetch, portfolio, now>>

FetchNews ==
    /\ news.pc = "fetching"
    /\ \E o \in NewsOutcomes : news' = NewsAttempt(news, o)
    /\ UNCHANGED <<seriesVars, insightVars, session, fetch, portfolio, now>>

FormatArticles ==
    /\ news.pc = "format"
    /\ news' = [news EXCEPT !.pc = "done", !.result = FormatNews(news.news, news.limit)]
    /\ UNCHANGED <<seriesVars, insightVars, session, fetch, portfolio, now>>

NextNews ==
    \/ GetStockNews
    \/ FetchNews
    \/ FormatArticles

SpecNews == InitFetch /\ [][NextNews]_vars

\* no usable news: nothing was fetched, or no fetched article, among those
\* looked at, formats with a title of its own
NoUsableNews ==
    \/ news.news = None
    \/ \A i \in DOMAIN FirstItems(news.news.items, news.limit) : news.news.items[i] # "titled"

\* C29: when no usable news is available get_stock_news returns a non-empty
\* list of placeholder or sample articles; an empty list is returned only on
\* an authorization error or a critical failure.
C29_PlaceholderInsteadOfEmptyList ==
    news.result # NotCalled =>
        /\ news.result.articles = <<>> => news.result.cause \in {"unauthorized", "critical"}
        /\ (NoUsableNews /\ news.result.cause \notin {"unauthorized", "critical"}) =>
               /\ news.result.articles # <<>>
               /\ \A i \in DOMAIN news.result.articles :
                      news.result.articles[i] \in {"placeholder", "sample"}

====
